---- MODULE Spec2Model ----
(***************************************************************************)
(* A model of graphqlgo (src/graphqlgo.go): the Client, the Request, their *)
(* functional options, and Client.Run, one action per step of Run.         *)
(*                                                                         *)
(* Representation.                                                         *)
(*  - A header name is the tuple of its characters, so that the            *)
(*    canonicalisation done by http.Header.Add/Set is computed, not        *)
(*    assumed.  An http.Header is a function from header names to          *)
(*    sequences of values.                                                 *)
(*  - A Go pointer or map that may be nil is a sequence of length 0 (nil)  *)
(*    or 1.  A Go slice is a record [isNil, elems].                        *)
(*  - JSON text is a sequence of tokens; a JSON string s is the three      *)
(*    tokens  "  s  "  .                                                   *)
(*  - Ranging over a Go map visits the keys in an unspecified order: every *)
(*    order is a possible outcome.                                         *)
(***************************************************************************)
EXTENDS Integers, Sequences, FiniteSets, TLC

VARIABLES
    cOpts,        \* the header sets given to NewClient as WithHeaders options
    Endpoint,     \* Client.Endpoint
    cHeader,      \* Client.Header
    InspectRun,   \* Client.InspectRun
    staleKeys,    \* history: keys of InspectRun written by an earlier Run
    sentKeys,     \* history: header names sent by earlier Runs of this client
    rOpts,        \* the options given to NewRequest
    req,          \* the Request passed to Run
    ctx,          \* the context passed to Run: "live", "canceled", "deadline"
    target,       \* the resp argument of Run: [supplied, val]
    pc,           \* position of Run
    requestBody,  \* local requestBody (the encoded envelope)
    r,            \* local r (the outbound *http.Request): [built, Header]
    calls,        \* number of httpClient.Do calls made by the current Run
    steps,        \* history: the steps the current Run has taken, in order
    res,          \* local res (the *http.Response): [present, status, body]
    deferClose,   \* whether  defer res.Body.Close()  has been registered
    bodyRead,     \* whether Run has read res.Body
    bodyClosed,   \* whether res.Body has been closed
    buf,          \* local buf (the drained body)
    gr,           \* local gr (the decoded GraphQLResponse): [decoded, Errors]
    retErrs,      \* first result of Run ([]GraphQLError)
    retErr        \* second result of Run (error)

vars == <<cOpts, Endpoint, cHeader, InspectRun, staleKeys, sentKeys, rOpts, req, ctx,
          target, pc, requestBody, r, calls, steps, res, deferClose, bodyRead,
          bodyClosed, buf, gr, retErrs, retErr>>

\* Bounds of the option lists explored by SpecBuild.
MaxOpts == 2
MaxReqOpts == 2

SeqsUpTo(S, n) == UNION {[1..m -> S] : m \in 0..n}

\* All orders in which the elements of S can be visited.
Orders(S) ==
    {o \in [1..Cardinality(S) -> S] :
        \A i, j \in 1..Cardinality(S) : i # j => o[i] # o[j]}

-----------------------------------------------------------------------------
(* http.Header, as used by the client                                      *)

LowerCase == <<"a","b","c","d","e","f","g","h","i","j","k","l","m",
               "n","o","p","q","r","s","t","u","v","w","x","y","z">>
UpperCase == <<"A","B","C","D","E","F","G","H","I","J","K","L","M",
               "N","O","P","Q","R","S","T","U","V","W","X","Y","Z">>

IsLower(c) == \E i \in 1..26 : LowerCase[i] = c
IsUpper(c) == \E i \in 1..26 : UpperCase[i] = c
ToUpper(c) == UpperCase[CHOOSE i \in 1..26 : LowerCase[i] = c]
ToLower(c) == LowerCase[CHOOSE i \in 1..26 : UpperCase[i] = c]

\* The canonical form of a header name: the first letter and every letter
\* after a hyphen in upper case, the others in lower case.
RECURSIVE CanonFrom(_, _, _)
CanonFrom(key, i, upper) ==
    IF i > Len(key) THEN <<>>
    ELSE LET c == key[i]
             d == IF upper /\ IsLower(c) THEN ToUpper(c)
                  ELSE IF ~upper /\ IsUpper(c) THEN ToLower(c)
                  ELSE c
         IN  <<d>> \o CanonFrom(key, i + 1, d = "-")

Canon(key) == CanonFrom(key, 1, TRUE)

EmptyHeader == [k \in {} |-> <<>>]

\* h.Set(key, value): replaces the values under the canonical key.
Set(h, key, value) ==
    [k \in DOMAIN h \cup {Canon(key)} |->
        IF k = Canon(key) THEN <<value>> ELSE h[k]]

\* A replacing write in place of the appending one.
Add_Replacing(h, key, value) == Set(h, key, value)

\* h.Add(key, value): appends value to the values under the canonical key.
Add(h, key, value) ==
    [k \in DOMAIN h \cup {Canon(key)} |->
        IF k = Canon(key)
        THEN (IF k \in DOMAIN h THEN Append(h[k], value) ELSE <<value>>)
        ELSE h[k]]

\* for _, value := range values { h.Add(key, value) }
RECURSIVE AddValues(_, _, _)
AddValues(h, key, values) ==
    IF values = <<>> THEN h
    ELSE AddValues(Add(h, key, Head(values)), key, Tail(values))

\* for key, values := range src { ... dst.Add(key, value) ... }, the keys of
\* src visited in the order ord.
RECURSIVE AddAllInOrder(_, _, _)
AddAllInOrder(dst, src, ord) ==
    IF ord = <<>> THEN dst
    ELSE AddAllInOrder(AddValues(dst, Head(ord), src[Head(ord)]), src, Tail(ord))

\* The possible results of adding every entry of src to dst.
AddAll(dst, src) == {AddAllInOrder(dst, src, ord) : ord \in Orders(DOMAIN src)}

-----------------------------------------------------------------------------
(* Client construction                                                     *)

ContentType == <<"C","o","n","t","e","n","t","-","T","y","p","e">>
Accept == <<"A","c","c","e","p","t">>
JSONType == "application/json; charset=utf-8"

\* The header set of a new Client before the options are applied.
DefaultHeader == Set(Set(EmptyHeader, ContentType, JSONType), Accept, JSONType)

\* WithHeaders(headers)(client): the possible values of client.Header.
WithHeaders(h, headers) == AddAll(h, headers)

\* for _, optFn := range opts { optFn(c) }
RECURSIVE ApplyClientOpts(_, _)
ApplyClientOpts(h, opts) ==
    IF opts = <<>> THEN {h}
    ELSE UNION {ApplyClientOpts(h2, Tail(opts)) : h2 \in WithHeaders(h, Head(opts))}

\* NewClient(endpoint, opts...): the possible values of c.Header.
NewClient(opts) == ApplyClientOpts(DefaultHeader, opts)

-----------------------------------------------------------------------------
(* Request construction                                                    *)

NilVars == <<>>
NilName == <<>>

OptVars(m) == [opt |-> "WithVars", vars |-> m, s |-> ""]
OptName(s) == [opt |-> "WithOperationName", vars |-> NilVars, s |-> s]

\* WithVars(vars)(r)
WithVars(rq, m) == [rq EXCEPT !.vars = m]

\* An option that stores the name it is given, the empty one included.
WithOperationName_Always(rq, s) == [rq EXCEPT !.opName = <<s>>]

\* WithOperationName(s)(r)
WithOperationName(rq, s) ==
    IF s # "" THEN [rq EXCEPT !.opName = <<s>>] ELSE rq

ApplyReqOpt(rq, o) ==
    IF o.opt = "WithVars" THEN WithVars(rq, o.vars)
    ELSE WithOperationName(rq, o.s)

RECURSIVE ApplyReqOpts(_, _)
ApplyReqOpts(rq, opts) ==
    IF opts = <<>> THEN rq
    ELSE ApplyReqOpts(ApplyReqOpt(rq, Head(opts)), Tail(opts))

\* NewRequest(q, opts...)
NewRequest(q, opts) ==
    ApplyReqOpts([q |-> q, vars |-> NilVars, opName |-> NilName,
                  Header |-> EmptyHeader], opts)

\* The caller's writes to the exported field req.Header.
RequestWithHeader(rq, h) == [rq EXCEPT !.Header = h]

-----------------------------------------------------------------------------
(* The request envelope and its JSON encoding                              *)

\* A value encoding/json cannot encode (a channel, a function).
Unsupported == "<chan>"

JStr(s) == <<"\"", s, "\"">>

\* A map of at most one entry, as a set of <<key, value>> pairs.
JMap(m) ==
    IF m = {} THEN <<"{", "}">>
    ELSE LET p == CHOOSE p \in m : TRUE
         IN  <<"{">> \o JStr(p[1]) \o <<":">> \o JStr(p[2]) \o <<"}">>

\* Variables map[string]interface{} `json:"variables"`
JVariables(v) == IF v = NilVars THEN <<"null">> ELSE JMap(v[1])

\* OperationName *string `json:"operationName"`
JOperationName(n) == IF n = NilName THEN <<"null">> ELSE JStr(n[1])

\* requestBodyObj := RequestBody{Query: req.q, Variables: req.vars, ...}
RequestBody(rq) == [Query |-> rq.q, Variables |-> rq.vars, OperationName |-> rq.opName]

EncodeFails(obj) ==
    obj.Variables # NilVars /\ \E p \in obj.Variables[1] : p[2] = Unsupported

\* json.NewEncoder(&requestBody).Encode(requestBodyObj)
Encode(obj) ==
    <<"{">> \o JStr("query") \o <<":">> \o JStr(obj.Query)
    \o <<",">> \o JStr("variables") \o <<":">> \o JVariables(obj.Variables)
    \o <<",">> \o JStr("operationName") \o <<":">> \o JOperationName(obj.OperationName)
    \o <<"}", "\n">>

-----------------------------------------------------------------------------
(* Values                                                                  *)

\* []GraphQLError: the nil slice, and a slice of the given errors.
NilErrs == [isNil |-> TRUE, elems |-> <<>>]
Errs(es) == [isNil |-> FALSE, elems |-> es]

\* error values: nil, and one per place of Run that returns a failure.
NoError == [kind |-> "nil", code |-> 0, cause |-> ""]
Failure(kind, code, cause) == [kind |-> kind, code |-> code, cause |-> cause]

\* ctx.Err()
CtxErr(c) == Failure("context", 0, c)

\* A response body, by what it decodes to: whether it is JSON at all, its
\* data member ("absent", "null" or the value) and its errors member
\* ("absent", "null", or a list of records, each named by its message).
Body(valid, data, given, es) ==
    [valid |-> valid, data |-> data, errors |-> [given |-> given, elems |-> es]]

Garbage == Body(FALSE, "absent", "absent", <<>>)

Bodies ==
    {Garbage}
    \cup {Body(TRUE, d, "absent", <<>>) : d \in {"absent", "null", "yes"}}
    \cup {Body(TRUE, d, "list", es) :
            d \in {"absent", "null", "yes"}, es \in {<<>>, <<"oops", "badbad">>}}

StatusOK == 200
Statuses == {StatusOK, 201, 400}

NoBody == Body(FALSE, "absent", "absent", <<>>)
NoResponse ==
    [present |-> FALSE, status |-> 0, body |-> NoBody, Header |-> EmptyHeader,
     Cookies |-> <<>>, ContentLength |-> 0]
Response(status, body) ==
    [present |-> TRUE, status |-> status, body |-> body,
     Header |-> Set(EmptyHeader, ContentType, "application/json"),
     Cookies |-> <<>>, ContentLength |-> -1]

NoRequest == [built |-> FALSE, Header |-> EmptyHeader]
NoGR == [decoded |-> FALSE, Errors |-> NilErrs]

\* The errors member decoded into gr.Errors.
DecodeErrors(body) ==
    IF body.errors.given = "list" THEN Errs(body.errors.elems) ELSE NilErrs

\* The data member decoded through gr.Data into the caller's target.
DecodeData(t, body) ==
    IF t.supplied /\ body.data \notin {"absent", "null"}
    THEN [t EXCEPT !.val = body.data]
    ELSE t

\* c.InspectRun[k] = v
Put(m, k, v) == [x \in DOMAIN m \cup {k} |-> IF x = k THEN v ELSE m[x]]

EmptyInspect == [k \in {} |-> 0]

GoodEndpoint == "https://countries.trevorblades.com/"
BadEndpoint == ":bad"

-----------------------------------------------------------------------------
(* Inputs                                                                  *)

XA == <<"X","-","A">>
xa == <<"x","-","a">>
XB == <<"X","-","B">>
accept == <<"a","c","c","e","p","t">>

ClientHeaderInputs ==
    { XA :> <<"1">>,
      (xa :> <<"2">>) @@ (XA :> <<"3">>),
      accept :> <<"text/plain">>,
      XB :> <<>> }

RequestHeaderInputs ==
    { EmptyHeader,
      (xa :> <<"4">>) @@ (XB :> <<"5", "6">>),
      (XA :> <<"7">>) @@ (xa :> <<"8">>) @@ (ContentType :> <<"text/plain">>) }

GoodVars == <<{<<"code", "AF">>}>>
EmptyVars == <<{}>>
BadVars == <<{<<"code", Unsupported>>}>>

RequestOptInputs ==
    {OptVars(GoodVars), OptVars(EmptyVars), OptVars(NilVars), OptVars(BadVars),
     OptName(""), OptName("name"), OptName("other")}

Query == "query {}"

\* The clients and requests exercised by Spec.
RunClientOpts == {<<>>, <<XA :> <<"1">>>>}
RunRequestOpts ==
    {<<>>, <<OptVars(GoodVars), OptName("name")>>, <<OptVars(BadVars)>>}
RunRequestHeaders == {EmptyHeader, XB :> <<"5">>, xa :> <<"4">>}

Targets == {[supplied |-> s, val |-> "zero"] : s \in BOOLEAN}
Contexts == {"live", "canceled", "deadline"}

-----------------------------------------------------------------------------
(* Client.Run                                                              *)

client == <<cOpts, Endpoint, cHeader, sentKeys>>
args == <<rOpts, req, ctx>>
locals == <<requestBody, r, res, deferClose, buf, gr>>
results == <<retErrs, retErr>>

\* A return that runs no deferred close.
Return_NoClose(errs, err) ==
    /\ pc' = "returned"
    /\ retErrs' = errs
    /\ retErr' = err
    /\ bodyClosed' = bodyClosed

\* return errs, err: the deferred res.Body.Close() runs if it was registered.
Return(errs, err) ==
    /\ pc' = "returned"
    /\ retErrs' = errs
    /\ retErr' = err
    /\ bodyClosed' = (bodyClosed \/ deferClose)

\* The caller builds a Request and calls c.Run(ctx, req, resp).
Call ==
    /\ pc \in {"idle", "returned"}
    /\ rOpts' \in RunRequestOpts
    /\ \E h \in RunRequestHeaders :
          req' = RequestWithHeader(NewRequest(Query, rOpts'), h)
    /\ ctx' \in Contexts
    /\ target' \in Targets
    /\ staleKeys' = DOMAIN InspectRun
    /\ sentKeys' = sentKeys \cup DOMAIN r.Header
    /\ requestBody' = <<>>
    /\ r' = NoRequest
    /\ res' = NoResponse
    /\ deferClose' = FALSE
    /\ bodyRead' = FALSE
    /\ bodyClosed' = FALSE
    /\ buf' = NoBody
    /\ gr' = NoGR
    /\ calls' = 0
    /\ steps' = <<>>
    /\ retErrs' = NilErrs
    /\ retErr' = NoError
    /\ pc' = "entry"
    /\ UNCHANGED <<cOpts, Endpoint, cHeader, InspectRun>>

\* The snapshot reset placed before the check of the context.
CheckCtx_ResetFirst ==
    /\ pc = "entry"
    /\ UNCHANGED steps
    /\ InspectRun' = EmptyInspect
    /\ staleKeys' = {}
    /\ IF ctx # "live"
       THEN Return(NilErrs, CtxErr(ctx))
       ELSE pc' = "reset" /\ UNCHANGED <<results, bodyClosed>>
    /\ UNCHANGED <<client, args, locals, target, calls, bodyRead>>

\* select { case <-ctx.Done(): return nil, ctx.Err(); default: }
CheckCtx ==
    /\ pc = "entry"
    /\ UNCHANGED steps
    /\ IF ctx # "live"
       THEN Return(NilErrs, CtxErr(ctx))
       ELSE pc' = "reset" /\ UNCHANGED <<results, bodyClosed>>
    /\ UNCHANGED <<client, args, locals, InspectRun, staleKeys, target, calls, bodyRead>>

\* c.InspectRun = InspectData{}
ResetInspect ==
    /\ pc = "reset"
    /\ steps' = Append(steps, "reset snapshot")
    /\ InspectRun' = EmptyInspect
    /\ staleKeys' = {}
    /\ pc' = "serialize"
    /\ UNCHANGED <<client, args, locals, results, target, calls, bodyRead, bodyClosed>>

\* The envelope is built, recorded and encoded.
Serialize ==
    /\ pc = "serialize"
    /\ steps' = Append(steps, "serialize")
    /\ InspectRun' = Put(InspectRun, "ReqBody", RequestBody(req))
    /\ staleKeys' = staleKeys \ {"ReqBody"}
    /\ IF EncodeFails(RequestBody(req))
       THEN /\ Return(NilErrs, Failure("encode body", 0, "unsupported type"))
            /\ UNCHANGED requestBody
       ELSE /\ requestBody' = Encode(RequestBody(req))
            /\ pc' = "build"
            /\ UNCHANGED <<results, bodyClosed>>
    /\ UNCHANGED <<client, args, r, res, deferClose, buf, gr, target, calls, bodyRead>>

\* r, err := http.NewRequest(http.MethodPost, c.Endpoint, &requestBody)
Build ==
    /\ pc = "build"
    /\ steps' = Append(steps, "build request")
    /\ IF Endpoint = BadEndpoint
       THEN /\ Return(NilErrs, Failure("new request", 0, "parse url"))
            /\ UNCHANGED r
       ELSE /\ r' = [built |-> TRUE, Header |-> EmptyHeader]
            /\ pc' = "merge"
            /\ UNCHANGED <<results, bodyClosed>>
    /\ UNCHANGED <<client, args, requestBody, res, deferClose, buf, gr,
                   InspectRun, staleKeys, target, calls, bodyRead>>

\* The possible values of r.Header after the two loops that add the
\* client's headers and then the request's.
MergedHeaders(rh, ch, qh) == UNION {AddAll(h1, qh) : h1 \in AddAll(rh, ch)}

\* r.Header made an alias of c.Header, so that the request's headers are
\* added to the client's stored set.
MergeHeaders_Aliased ==
    /\ pc = "merge"
    /\ steps' = Append(steps, "merge headers")
    /\ \E h \in AddAll(cHeader, req.Header) :
          /\ r' = [r EXCEPT !.Header = h]
          /\ cHeader' = h
          /\ InspectRun' = Put(InspectRun, "ReqHeaders", h)
    /\ staleKeys' = staleKeys \ {"ReqHeaders"}
    /\ pc' = "transport"
    /\ UNCHANGED <<cOpts, Endpoint, sentKeys, args, requestBody, res, deferClose,
                   buf, gr, results, target, calls, bodyRead, bodyClosed>>

\* The headers are merged into r.Header and recorded.
MergeHeaders ==
    /\ pc = "merge"
    /\ steps' = Append(steps, "merge headers")
    /\ \E h \in MergedHeaders(r.Header, cHeader, req.Header) :
          /\ r' = [r EXCEPT !.Header = h]
          /\ InspectRun' = Put(InspectRun, "ReqHeaders", h)
    /\ staleKeys' = staleKeys \ {"ReqHeaders"}
    /\ pc' = "transport"
    /\ UNCHANGED <<client, args, requestBody, res, deferClose, buf, gr,
                   results, target, calls, bodyRead, bodyClosed>>

\* A transport step that calls Do once more after a first failure.
Transport_Retry ==
    /\ pc = "transport"
    /\ steps' = Append(steps, "transport")
    /\ calls' = calls + 1
    /\ \/ /\ IF calls = 0
             THEN UNCHANGED <<pc, results, bodyClosed>>
             ELSE \E cause \in {"connection refused", "deadline exceeded"} :
                     Return(NilErrs, Failure("transport", 0, cause))
          /\ UNCHANGED <<res, deferClose>>
       \/ /\ \E s \in Statuses, b \in Bodies : res' = Response(s, b)
          /\ deferClose' = TRUE
          /\ pc' = "record"
          /\ UNCHANGED <<results, bodyClosed>>
    /\ UNCHANGED <<client, args, requestBody, r, buf, gr, InspectRun,
                   staleKeys, target, bodyRead>>

\* res, err := c.httpClient.Do(r); on success the close of the body is
\* deferred.
Transport ==
    /\ pc = "transport"
    /\ steps' = Append(steps, "transport")
    /\ calls' = calls + 1
    /\ \/ /\ \E cause \in {"connection refused", "deadline exceeded"} :
                Return(NilErrs, Failure("transport", 0, cause))
          /\ UNCHANGED <<res, deferClose>>
       \/ /\ \E s \in Statuses, b \in Bodies : res' = Response(s, b)
          /\ deferClose' = TRUE
          /\ pc' = "record"
          /\ UNCHANGED <<results, bodyClosed>>
    /\ UNCHANGED <<client, args, requestBody, r, buf, gr, InspectRun,
                   staleKeys, target, bodyRead>>

\* The response's status, headers, cookies and length are recorded.
Record ==
    /\ pc = "record"
    /\ steps' = Append(steps, "record response metadata")
    /\ InspectRun' =
          Put(Put(Put(Put(InspectRun, "ResStatusCode", res.status),
                      "ResHeaders", res.Header),
                  "ResCookies", res.Cookies),
              "ResContentLength", res.ContentLength)
    /\ staleKeys' = staleKeys \ {"ResStatusCode", "ResHeaders", "ResCookies",
                                 "ResContentLength"}
    /\ pc' = "gate"
    /\ UNCHANGED <<client, args, locals, results, target, calls, bodyRead, bodyClosed>>

\* Only the 4xx and 5xx statuses taken as failures.
IsFailureStatus_From400(code) == code >= 400

\* res.StatusCode != http.StatusOK
IsFailureStatus(code) == code # StatusOK

\* A status gate that also returns the errors of the body.
Gate_WithErrors ==
    /\ pc = "gate"
    /\ steps' = Append(steps, "status gate")
    /\ IF IsFailureStatus(res.status)
       THEN Return(DecodeErrors(res.body),
                   Failure("HTTP Error", res.status, "non-200 status code"))
       ELSE pc' = "drain" /\ UNCHANGED <<results, bodyClosed>>
    /\ UNCHANGED <<client, args, locals, InspectRun, staleKeys, target, calls, bodyRead>>

\* if res.StatusCode != http.StatusOK { return nil, fmt.Errorf(...) }
Gate ==
    /\ pc = "gate"
    /\ steps' = Append(steps, "status gate")
    /\ IF IsFailureStatus(res.status)
       THEN Return(NilErrs, Failure("HTTP Error", res.status, "non-200 status code"))
       ELSE pc' = "drain" /\ UNCHANGED <<results, bodyClosed>>
    /\ UNCHANGED <<client, args, locals, InspectRun, staleKeys, target, calls, bodyRead>>

\* A drain that does not record the text.
Drain_NoRecord ==
    /\ pc = "drain"
    /\ steps' = Append(steps, "drain body")
    /\ bodyRead' = TRUE
    /\ \/ /\ Return(NilErrs, Failure("reading body", 0, "unexpected EOF"))
          /\ UNCHANGED buf
       \/ /\ buf' = res.body
          /\ pc' = "decode"
          /\ UNCHANGED <<results, bodyClosed>>
    /\ UNCHANGED <<client, args, requestBody, r, res, deferClose, gr, target,
                   calls, InspectRun, staleKeys>>

\* io.Copy(&buf, res.Body), and on success the text is recorded.
Drain ==
    /\ pc = "drain"
    /\ steps' = Append(steps, "drain body")
    /\ bodyRead' = TRUE
    /\ \/ /\ Return(NilErrs, Failure("reading body", 0, "unexpected EOF"))
          /\ UNCHANGED <<buf, InspectRun, staleKeys>>
       \/ /\ buf' = res.body
          /\ InspectRun' = Put(InspectRun, "ResBody", res.body)
          /\ staleKeys' = staleKeys \ {"ResBody"}
          /\ pc' = "decode"
          /\ UNCHANGED <<results, bodyClosed>>
    /\ UNCHANGED <<client, args, requestBody, r, res, deferClose, gr, target, calls>>

\* gr.Data = resp; json.NewDecoder(&buf).Decode(&gr)
Decode ==
    /\ pc = "decode"
    /\ steps' = Append(steps, "decode")
    /\ IF ~buf.valid
       THEN /\ Return(NilErrs, Failure("decoding response", 0, "invalid character"))
            /\ UNCHANGED <<gr, target>>
       ELSE /\ gr' = [decoded |-> TRUE, Errors |-> DecodeErrors(buf)]
            /\ target' = DecodeData(target, buf)
            /\ pc' = "classify"
            /\ UNCHANGED <<results, bodyClosed>>
    /\ UNCHANGED <<client, args, requestBody, r, res, deferClose, buf,
                   InspectRun, staleKeys, calls, bodyRead>>

\* The decoded slice returned as it is, empty or not.
Classified_AsDecoded(errors) == errors

\* if len(gr.Errors) > 0 { return gr.Errors, nil }; return nil, nil
Classified(errors) == IF Len(errors.elems) > 0 THEN errors ELSE NilErrs

\* The result is classified and returned.
Classify ==
    /\ pc = "classify"
    /\ steps' = Append(steps, "classify")
    /\ Return(Classified(gr.Errors), NoError)
    /\ UNCHANGED <<client, args, locals, InspectRun, staleKeys, target, calls, bodyRead>>

RunStep ==
    \/ CheckCtx \/ ResetInspect \/ Serialize \/ Build \/ MergeHeaders
    \/ Transport \/ Record \/ Gate \/ Drain \/ Decode \/ Classify

-----------------------------------------------------------------------------
(* Specifications                                                          *)

InitRun ==
    /\ InspectRun = EmptyInspect
    /\ staleKeys = {}
    /\ sentKeys = {}
    /\ rOpts = <<>>
    /\ req = NewRequest(Query, <<>>)
    /\ ctx = "live"
    /\ target = [supplied |-> FALSE, val |-> "zero"]
    /\ requestBody = <<>>
    /\ r = NoRequest
    /\ calls = 0
    /\ steps = <<>>
    /\ res = NoResponse
    /\ deferClose = FALSE
    /\ bodyRead = FALSE
    /\ bodyClosed = FALSE
    /\ buf = NoBody
    /\ gr = NoGR
    /\ retErrs = NilErrs
    /\ retErr = NoError

\* A client built by NewClient, before its first Run.
Init ==
    /\ cOpts \in RunClientOpts
    /\ Endpoint \in {GoodEndpoint, BadEndpoint}
    /\ cHeader \in NewClient(cOpts)
    /\ pc = "idle"
    /\ InitRun

Next == Call \/ RunStep

Spec == Init /\ [][Next]_vars

\* The first steps of one Run, the exchange being built, for every client
\* and for every request that the bounded option lists can build.  The
\* client options and the request options touch disjoint fields, so the
\* lists of one kind are explored with the empty list of the other.
InitBuild ==
    /\ cOpts \in SeqsUpTo(ClientHeaderInputs, MaxOpts)
    /\ Endpoint = GoodEndpoint
    /\ cHeader \in NewClient(cOpts)
    /\ InspectRun = EmptyInspect
    /\ staleKeys = {}
    /\ sentKeys = {}
    /\ rOpts \in SeqsUpTo(RequestOptInputs, MaxReqOpts)
    /\ cOpts = <<>> \/ rOpts = <<>>
    /\ \E h \in RequestHeaderInputs :
          req = RequestWithHeader(NewRequest(Query, rOpts), h)
    /\ ctx = "live"
    /\ target = [supplied |-> FALSE, val |-> "zero"]
    /\ pc = "entry"
    /\ requestBody = <<>>
    /\ r = NoRequest
    /\ calls = 0
    /\ steps = <<>>
    /\ res = NoResponse
    /\ deferClose = FALSE
    /\ bodyRead = FALSE
    /\ bodyClosed = FALSE
    /\ buf = NoBody
    /\ gr = NoGR
    /\ retErrs = NilErrs
    /\ retErr = NoError

NextBuild == CheckCtx \/ ResetInspect \/ Serialize \/ Build \/ MergeHeaders

SpecBuild == InitBuild /\ [][NextBuild]_vars

-----------------------------------------------------------------------------
(* Properties                                                              *)

Running == pc \notin {"idle", "returned"}
Returned == pc = "returned"

\* r.Header holds the merged headers of the current exchange.
HeadersMerged == r.built /\ pc # "merge"

CanonKeys(h) == {Canon(k) : k \in DOMAIN h}

RECURSIVE Flatten(_)
Flatten(ss) == IF ss = <<>> THEN <<>> ELSE Head(ss) \o Flatten(Tail(ss))

\* The value lists that the header set h can contribute under the canonical
\* name k: the values of its entries named k, whatever their spelling.
ValuesUnder(h, k) ==
    LET raws == {x \in DOMAIN h : Canon(x) = k}
    IN  {Flatten([i \in 1..Cardinality(raws) |-> h[o[i]]]) : o \in Orders(raws)}

DefaultValues(k) == IF k \in {ContentType, Accept} THEN <<JSONType>> ELSE <<>>

RECURSIVE OptionValues(_, _)
OptionValues(opts, k) ==
    IF opts = <<>> THEN {<<>>}
    ELSE {a \o b : a \in ValuesUnder(Head(opts), k), b \in OptionValues(Tail(opts), k)}

ExpectedValues(k) ==
    {DefaultValues(k) \o c \o q :
        c \in OptionValues(cOpts, k), q \in ValuesUnder(req.Header, k)}

ExpectedKeys ==
    {ContentType, Accept}
    \cup UNION {CanonKeys(cOpts[i]) : i \in 1..Len(cOpts)}
    \cup CanonKeys(req.Header)

C2_NoStaleEntryOnReturn == Returned => staleKeys = {}

\* C3: the outbound headers hold, under each name, the default value, then
\* the values of the client options in option order, then the values of the
\* Request, and nothing else.
C3_OutboundHeadersAccumulate ==
    HeadersMerged =>
        /\ DOMAIN r.Header \subseteq ExpectedKeys
        /\ \A k \in ExpectedKeys :
              IF ExpectedValues(k) = {<<>>}
              THEN k \notin DOMAIN r.Header
              ELSE k \in DOMAIN r.Header /\ r.Header[k] \in ExpectedValues(k)
        /\ InspectRun["ReqHeaders"] = r.Header

\* Two client options and the Request all carry X-A, and the Request also
\* carries Content-Type.
C3_Witness ==
    /\ HeadersMerged
    /\ Len(cOpts) = 2
    /\ Len(r.Header[ContentType]) = 2
    /\ XA \in DOMAIN r.Header
    /\ Len(r.Header[XA]) >= 5

\* A header name sent by an earlier Run that neither the client nor the
\* current Request carries is not in the outbound headers.
NoLeak ==
    HeadersMerged =>
        \A k \in sentKeys :
            (k \notin CanonKeys(cHeader) /\ k \notin CanonKeys(req.Header))
                => k \notin DOMAIN r.Header

\* C4: no step of Run changes the client's stored headers or the Request's,
\* and a header carried only by an earlier Request is not sent again.
C4_StoredHeadersUnchanged ==
    /\ [][Running => (cHeader' = cHeader /\ req'.Header = req.Header)]_vars
    /\ []NoLeak

\* The headers of an exchange are merged, and an earlier exchange sent a
\* header name that this one does not.
C4_Witness ==
    /\ HeadersMerged
    /\ \E k \in sentKeys : k \notin DOMAIN r.Header

\* The name left by a list of request options: that of the last
\* WithOperationName option given a non-empty name.
RECURSIVE LastName(_)
LastName(opts) ==
    IF opts = <<>> THEN NilName
    ELSE LET o == opts[Len(opts)]
         IN  IF o.opt = "WithOperationName" /\ o.s # "" THEN <<o.s>>
             ELSE LastName(SubSeq(opts, 1, Len(opts) - 1))

NullEnvelope(q) ==
    <<"{", "\"", "query", "\"", ":", "\"", q, "\"", ",",
      "\"", "variables", "\"", ":", "null", ",",
      "\"", "operationName", "\"", ":", "null", "}", "\n">>

\* C5: a Request with no variables and no operation name is encoded with
\* null under both keys, and WithOperationName("") changes nothing: the
\* Request's name is that of the last option given a non-empty name.
C5_AbsentFieldsEncodeAsNull ==
    /\ req.opName = LastName(rOpts)
    /\ req.opName # <<"">>
    /\ (requestBody # <<>> /\ req.vars = NilVars /\ req.opName = NilName)
          => requestBody = NullEnvelope(req.q)

\* A Request built with WithOperationName("") only has been encoded.
C5_Witness ==
    /\ requestBody # <<>>
    /\ req.vars = NilVars
    /\ rOpts # <<>>
    /\ \A i \in 1..Len(rOpts) : rOpts[i] = OptName("")

\* Run has returned after a 200 response whose body was read and decodes.
DecodedOK ==
    /\ Returned /\ res.present
    /\ res.status = StatusOK
    /\ res.body.valid
    /\ retErr.kind # "reading body"

\* C6: after a 200 response that decodes, the failure is nil; the error
\* list is the decoded errors in their order when there are any and nil
\* otherwise; and the data is in the caller's target whenever one was
\* supplied, with or without errors.
C6_DecodedResponseResult ==
    DecodedOK =>
        /\ retErr = NoError
        /\ IF res.body.errors.elems # <<>>
           THEN retErrs = Errs(res.body.errors.elems)
           ELSE retErrs = NilErrs
        /\ (target.supplied /\ res.body.data \notin {"absent", "null"})
              => target.val = res.body.data
        /\ ~target.supplied => target.val = "zero"

\* A 200 response with data and two errors, and a target supplied.
C6_Witness ==
    /\ DecodedOK
    /\ target.supplied /\ target.val = "yes"
    /\ retErrs = Errs(<<"oops", "badbad">>)

\* C7: after a response whose status is not 200, whatever its body, Run
\* returns the nil error list and a failure carrying the status, has neither
\* read nor decoded the body, and has left the target at its initial value.
C7_Non200IsFailure ==
    (Returned /\ res.present /\ res.status # StatusOK) =>
        /\ retErrs = NilErrs
        /\ retErr.kind = "HTTP Error"
        /\ retErr.code = res.status
        /\ ~bodyRead
        /\ buf = NoBody
        /\ ~gr.decoded
        /\ target.val = "zero"

\* A 201 response whose body holds data and errors, and a target supplied.
C7_Witness ==
    /\ Returned /\ res.present
    /\ res.status = 201
    /\ res.body.data = "yes"
    /\ res.body.errors.elems # <<>>
    /\ target.supplied

FailureKinds ==
    {"context", "encode body", "new request", "transport", "HTTP Error",
     "reading body", "decoding response"}

\* C8: on every return of Run, a non-nil error list comes with the nil
\* failure only, and a failure of any kind comes with the nil error list.
C8_ChannelsExclusive ==
    Returned =>
        /\ retErr.kind \in FailureKinds \cup {"nil"}
        /\ ~retErrs.isNil => retErr = NoError
        /\ retErr # NoError => retErrs = NilErrs

\* Run has returned protocol errors.
C8_Witness == Returned /\ ~retErrs.isNil /\ retErr = NoError

\* The body was read to its end.
Drained == bodyRead /\ retErr.kind # "reading body"

SnapshotKeys ==
    {"ReqBody"}
    \cup (IF r.built THEN {"ReqHeaders"} ELSE {})
    \cup (IF res.present
          THEN {"ResStatusCode", "ResHeaders", "ResCookies", "ResContentLength"}
          ELSE {})
    \cup (IF Drained THEN {"ResBody"} ELSE {})

\* C9: when a Run that started an exchange returns, the snapshot holds
\* exactly the entries of the steps completed: the body object; the merged
\* headers once the outbound request was built; the response's status,
\* headers, cookies and length iff the transport returned a response; the
\* body text iff the body was drained, so also when decoding fails, and for
\* no response other than a 200.
C9_SnapshotReflectsProgress ==
    (Returned /\ ctx = "live") =>
        /\ DOMAIN InspectRun = SnapshotKeys
        /\ InspectRun["ReqBody"] = RequestBody(req)
        /\ r.built => InspectRun["ReqHeaders"] = r.Header
        /\ res.present =>
              /\ InspectRun["ResStatusCode"] = res.status
              /\ InspectRun["ResHeaders"] = res.Header
              /\ InspectRun["ResCookies"] = res.Cookies
              /\ InspectRun["ResContentLength"] = res.ContentLength
        /\ Drained => InspectRun["ResBody"] = res.body
        /\ retErr.kind = "decoding response" => "ResBody" \in DOMAIN InspectRun
        /\ (res.present /\ res.status # StatusOK) => "ResBody" \notin DOMAIN InspectRun

\* Decoding has failed and the text of the body is in the snapshot.
C9_Witness ==
    /\ Returned /\ ctx = "live"
    /\ retErr.kind = "decoding response"
    /\ InspectRun["ResBody"] = Garbage

\* C10: when Run returns after the transport returned a response, the body
\* of the response has been closed; when the transport call failed, no body
\* was read or closed.
C10_BodyReleased ==
    Returned =>
        /\ res.present => bodyClosed
        /\ ~res.present => (~bodyClosed /\ ~bodyRead)
        /\ retErr.kind = "transport" => ~res.present

\* Reading the body has failed and the body is closed.
C10_Witness ==
    /\ Returned /\ res.present
    /\ retErr.kind = "reading body"
    /\ bodyClosed

\* The steps of Run in the order of the source.
StepOrder ==
    <<"reset snapshot", "serialize", "build request", "merge headers",
      "transport", "record response metadata", "status gate", "drain body",
      "decode", "classify">>

\* The number of steps a Run has taken when it returns with the failure err.
StepsBefore(err) ==
    CASE err.kind = "context" -> 0
      [] err.kind = "encode body" -> 2
      [] err.kind = "new request" -> 3
      [] err.kind = "transport" -> 5
      [] err.kind = "HTTP Error" -> 7
      [] err.kind = "reading body" -> 8
      [] err.kind = "decoding response" -> 9
      [] OTHER -> 10

\* C11: a Run makes at most one transport call: none when the context is
\* done at entry, when encoding fails or when the outbound request cannot be
\* built, and exactly one otherwise, whatever its outcome; and the steps it
\* takes are, in this order, reset snapshot, serialize, (build request,)
\* merge headers, transport, record response metadata, status gate, drain
\* body, decode, classify.
C11_OneTransportCallInOrder ==
    /\ Len(steps) <= Len(StepOrder)
    /\ steps = SubSeq(StepOrder, 1, Len(steps))
    /\ calls = Cardinality({i \in 1..Len(steps) : steps[i] = "transport"})
    /\ calls <= 1
    /\ Returned =>
          /\ steps = SubSeq(StepOrder, 1, StepsBefore(retErr))
          /\ calls = (IF retErr.kind \in {"context", "encode body", "new request"}
                      THEN 0 ELSE 1)
          /\ ctx # "live" => calls = 0

\* The transport call has failed, after exactly one call.
C11_Witness ==
    /\ Returned
    /\ retErr.kind = "transport"
    /\ calls = 1
    /\ steps = SubSeq(StepOrder, 1, 5)

====
